---- MODULE Spec2Model ----
(***************************************************************************)
(* Model of NNOptimizer (alpha-zero-nn/src/nn_optimizer.rs): the mixed     *)
(* precision training step with dynamic loss scaling.                      *)
(*                                                                         *)
(* Tensors are abstracted to one scalar per parameter.  A scalar is a      *)
(* record [k, m, e]: k = "undef" (undefined tensor), "nan", "inf" or       *)
(* "fin"; a finite scalar is m * 2^e (m = 0 is zero).  gradient_scale is   *)
(* an f32 that only ever holds 0, +inf or a power of two, so it is kept as *)
(* its binary exponent, with one code below the smallest subnormal for 0.0 *)
(* and one above the largest exponent for +inf.                            *)
(***************************************************************************)
EXTENDS Integers, Sequences, FiniteSets, TLC

\* ---- bounds of the model ----
NumParams == 2
MaxInterval == 2
MaxBatch == 1
MaxCalls == 2
MaxLoss == 1
MaxGrad == 1
MaxWeight == 2

\* ---- program constants ----
\* f32: smallest subnormal is 2^-149, largest power of two is 2^127
F32MinExp == -149
F32MaxExp == 127
\* (2 << 15) as f32 = 65536 = 2^16
InitScaleExp == 16
\* the clip threshold handed to clip_grad_norm, in gradient units
gradient_clip_norm == 1

Params == 1..NumParams
Intervals == 1..MaxInterval
BatchSizes == {0, MaxBatch}
LossVals == 1..MaxLoss
PolicyLossVals == {MaxLoss + 1}
GradVals == 1..MaxGrad
WeightMod == MaxWeight + 1

ScaleZero == F32MinExp - 1
ScaleInf == F32MaxExp + 1
ScaleVals == ScaleZero..ScaleInf

Min(a, b) == IF a < b THEN a ELSE b
Max(a, b) == IF a < b THEN b ELSE a

\* ---- scalar tensor values ----
Undef == [k |-> "undef", m |-> 0, e |-> 0]
NaN == [k |-> "nan", m |-> 0, e |-> 0]
Inf == [k |-> "inf", m |-> 0, e |-> 0]
Zero == [k |-> "fin", m |-> 0, e |-> 0]
Fin(m, e) == IF m = 0 THEN Zero ELSE [k |-> "fin", m |-> m, e |-> e]

Defined(x) == x.k # "undef"
IsInf(x) == x.k = "inf"
IsNan(x) == x.k = "nan"

\* (variant: a subnormal product is flushed to zero; f32 has 23 fraction bits)
MulHalfFlush(s) ==
    IF s = ScaleInf THEN ScaleInf
    ELSE IF s - 1 < F32MinExp + 23 THEN ScaleZero
    ELSE s - 1

\* f32 product of the scale with 0.5f32 (round to nearest even: 2^-149 * 0.5 = 0)
MulHalf(s) ==
    IF s = ScaleInf THEN ScaleInf
    ELSE IF s = ScaleZero THEN ScaleZero
    ELSE s - 1

\* f32 product of the scale with 2f32 (2^127 * 2 = +inf)
MulTwo(s) ==
    IF s = ScaleZero THEN ScaleZero
    ELSE IF s = ScaleInf THEN ScaleInf
    ELSE s + 1

\* 1f32 / scale
Recip(s) ==
    IF s = ScaleZero THEN ScaleInf
    ELSE IF s = ScaleInf THEN ScaleZero
    ELSE IF 0 - s > F32MaxExp THEN ScaleInf
    ELSE 0 - s

\* product of a scalar with an f32 factor given by its exponent code
MulPow2(x, s) ==
    IF x.k = "undef" \/ x.k = "nan" THEN x
    ELSE IF x.k = "inf" THEN (IF s = ScaleZero THEN NaN ELSE Inf)
    ELSE IF x.m = 0 THEN (IF s = ScaleInf THEN NaN ELSE Zero)
    ELSE IF s = ScaleZero THEN Zero
    ELSE IF s = ScaleInf THEN Inf
    ELSE Fin(x.m, x.e + s)

\* sum of two scalars (autograd accumulates into an existing gradient)
Add(a, b) ==
    IF a.k = "undef" THEN b
    ELSE IF b.k = "undef" THEN a
    ELSE IF a.k = "nan" \/ b.k = "nan" THEN NaN
    ELSE IF a.k = "inf" \/ b.k = "inf" THEN Inf
    ELSE IF a.m = 0 THEN b
    ELSE IF b.m = 0 THEN a
    ELSE Fin(a.m + b.m, b.e)


\* ---- state ----
VARIABLES
    phase,                \* "init" | "ready" | "failed" (new returned Err) | "panicked"
    update_interval,      \* config.gradient_scale_update_interval
    gradient_scale,       \* f32, as an exponent code in ScaleVals
    step_count,
    master_grad_created,
    vs_master,            \* master (fp32) weight of each trainable parameter
    vs_cloned,            \* compute-precision weight of each trainable parameter
    grad_master,          \* gradient buffer of each master parameter
    grad_cloned,          \* gradient buffer of each compute-precision parameter
    \* observation of the calls made (not program state)
    calls,                \* "none" | "first" | "later": how many step calls so far
    outcome,              \* of the last step call: "none" | "zero" | "skipped" | "committed" | "panic"
    arg_zero_batch,       \* the last step call had batch_size == 0
    main_loss,            \* <<v_loss, pi_loss>> of the main forward pass of the last call
    ret,                  \* tuple returned by the last step call, <<>> if it did not return
    passes,               \* forward/backward passes run by the last call
    stages,               \* stages run by the last call, in order
    cold_total,           \* cold-start passes run so far (saturates at 2)
    run_start,            \* scale when the current run of committed steps began
    run_len,              \* committed steps since step_count was last 0 before one of them
    ever_committed,       \* some step has committed
    back_grad,            \* what backward() yielded for each parameter in the last call
    upcast_grad,          \* master gradients right after the copy loop of the last call
    updates_total,        \* calls of Optimizer::step so far (counted up to MaxCalls)
    commits_total,        \* committed steps so far (counted up to MaxCalls)
    calls_left            \* step calls the specification still allows

prog == <<update_interval, gradient_scale, step_count, master_grad_created,
          vs_master, vs_cloned, grad_master, grad_cloned>>
obs == <<calls, outcome, arg_zero_batch, main_loss, ret, passes, stages, cold_total,
         run_start, run_len, ever_committed, back_grad, upcast_grad,
         updates_total, commits_total>>
vars == <<phase, prog, obs, calls_left>>

NoPasses == [fwd |-> 0, bwd |-> 0, cold_examples |-> 0, main_first |-> 0]
NoRet == <<>>
NoLoss == <<Zero, Zero>>
NoGrads == [p \in Params |-> Undef]
CountUp(n) == Min(n + 1, MaxCalls)

\* ---- the pieces of NNOptimizer::step ----

\* precision loss of to_kind(compute kind): the low bit of the weight is dropped
CastToCompute(w) ==
    IF w.k = "fin" THEN Fin(w.m - (w.m % 2), w.e) ELSE w

\* Option::unwrap of iterator.clone().next(): Some for a non-empty sequence
FirstExampleIsSome(len) == len > 0

\* NN::run_backward_on_master on one example: accumulates a gradient into every master buffer
RunBackwardOnMaster(gm, cg) ==
    [p \in Params |-> Add(gm[p], Fin(cg, 0))]

\* (variant: the gradients are not cleared)
ZeroGradNoop(gc) == gc

\* Tensor::zero_grad on every compute-precision variable
ZeroGrad(gc) ==
    [p \in Params |-> IF Defined(gc[p]) THEN Zero ELSE gc[p]]

\* scaled_loss.backward(): d(loss * scale)/dp accumulates into the compute gradient
Backward(gc, bg, scale) ==
    [p \in Params |-> Add(gc[p], MulPow2(bg[p], scale))]

\* (variant: the scan tests isinf alone)
RECURSIVE ScanFromInfOnly(_, _, _)
ScanFromInfOnly(i, gc, st) ==
    IF i > NumParams THEN st
    ELSE IF ~Defined(gc[i]) THEN ScanFromInfOnly(i + 1, gc, st)
    ELSE IF IsInf(gc[i])
         THEN [scale |-> MulHalf(st.scale), count |-> 0, skip |-> TRUE]
    ELSE ScanFromInfOnly(i + 1, gc, st)

\* (variant: the scan does not reset step_count)
RECURSIVE ScanFromNoReset(_, _, _)
ScanFromNoReset(i, gc, st) ==
    IF i > NumParams THEN st
    ELSE IF ~Defined(gc[i]) THEN ScanFromNoReset(i + 1, gc, st)
    ELSE IF IsInf(gc[i]) \/ IsNan(gc[i])
         THEN [scale |-> MulHalf(st.scale), count |-> st.count, skip |-> TRUE]
    ELSE ScanFromNoReset(i + 1, gc, st)

\* (variant: the scan has no break, so every offending gradient halves the scale)
RECURSIVE ScanFromNoBreak(_, _, _)
ScanFromNoBreak(i, gc, st) ==
    IF i > NumParams THEN st
    ELSE IF ~Defined(gc[i]) THEN ScanFromNoBreak(i + 1, gc, st)
    ELSE IF IsInf(gc[i]) \/ IsNan(gc[i])
         THEN ScanFromNoBreak(i + 1, gc,
                  [scale |-> MulHalf(st.scale), count |-> 0, skip |-> TRUE])
    ELSE ScanFromNoBreak(i + 1, gc, st)

\* (variant: an undefined gradient counts as an overflow)
RECURSIVE ScanFromUndefOverflows(_, _, _)
ScanFromUndefOverflows(i, gc, st) ==
    IF i > NumParams THEN st
    ELSE IF ~Defined(gc[i]) \/ IsInf(gc[i]) \/ IsNan(gc[i])
         THEN [scale |-> MulHalf(st.scale), count |-> 0, skip |-> TRUE]
    ELSE ScanFromUndefOverflows(i + 1, gc, st)

\* the overflow scan, from variable i on; st = [scale, count, skip]
RECURSIVE ScanFrom(_, _, _)
ScanFrom(i, gc, st) ==
    IF i > NumParams THEN st
    ELSE IF ~Defined(gc[i]) THEN ScanFrom(i + 1, gc, st)
    ELSE IF IsInf(gc[i]) \/ IsNan(gc[i])
         THEN [scale |-> MulHalf(st.scale), count |-> 0, skip |-> TRUE]
    ELSE ScanFrom(i + 1, gc, st)

\* (variant: the unscaled gradient is added to the master gradient)
RECURSIVE CopyGradFromAccumulate(_, _, _, _)
CopyGradFromAccumulate(i, gc, gm, inv) ==
    IF i > NumParams THEN [gm |-> gm, ok |-> TRUE]
    ELSE IF ~Defined(gc[i]) \/ ~Defined(gm[i]) THEN [gm |-> gm, ok |-> FALSE]
    ELSE CopyGradFromAccumulate(i + 1, gc,
             [gm EXCEPT ![i] = Add(gm[i], MulPow2(gc[i], inv))], inv)

\* copy of the unscaled gradients into master, from pair i on; an operation on an
\* undefined tensor raises, which the non-fallible tch call turns into a panic
RECURSIVE CopyGradFrom(_, _, _, _)
CopyGradFrom(i, gc, gm, inv) ==
    IF i > NumParams THEN [gm |-> gm, ok |-> TRUE]
    ELSE IF ~Defined(gc[i]) \/ ~Defined(gm[i]) THEN [gm |-> gm, ok |-> FALSE]
    ELSE CopyGradFrom(i + 1, gc, [gm EXCEPT ![i] = MulPow2(gc[i], inv)], inv)

\* Optimizer::clip_grad_norm: a NaN norm leaves the gradients alone, an infinite norm
\* multiplies them by 0, a norm above the maximum scales them down to it
ClipGradNorm(gm, maxNorm) ==
    IF \E p \in Params : IsNan(gm[p]) THEN gm
    ELSE IF \E p \in Params : IsInf(gm[p]) THEN [p \in Params |-> MulPow2(gm[p], ScaleZero)]
    ELSE [p \in Params |->
            IF Defined(gm[p]) /\ gm[p].e = 0 THEN Fin(Min(gm[p].m, maxNorm), 0) ELSE gm[p]]

\* Optimizer::step: moves every master weight by its gradient
OptimizerStep(wm, gm) ==
    [p \in Params |->
        IF ~Defined(gm[p]) THEN wm[p]
        ELSE IF gm[p].k # "fin" \/ wm[p].k # "fin" THEN NaN
        ELSE Fin((wm[p].m + gm[p].m) % WeightMod, 0)]

\* (variant: the update block is not guarded)
UpdateGuardAlways(skip_update) == TRUE

\* (variant: the guard is inverted)
UpdateGuardInverted(skip_update) == skip_update

\* if !skip_update: the update block runs
UpdateGuard(skip_update) == ~skip_update

\* (variant: the counter is not reset when the scale doubles)
SuccessUpdateNoReset(scale, count, interval) ==
    IF interval <= count + 1
        THEN [scale |-> MulTwo(scale), count |-> count + 1]
        ELSE [scale |-> scale, count |-> count + 1]

\* (variant: the scale doubles one step early)
SuccessUpdateEarly(scale, count, interval) ==
    IF interval <= count + 2
        THEN [scale |-> MulTwo(scale), count |-> 0]
        ELSE [scale |-> scale, count |-> count + 1]

\* (variant: the interval test is strict)
SuccessUpdateStrict(scale, count, interval) ==
    IF interval < count + 1
        THEN [scale |-> MulTwo(scale), count |-> 0]
        ELSE [scale |-> scale, count |-> count + 1]

\* step_count += 1, and the scale doubles once the interval is reached
SuccessUpdate(scale, count, interval) ==
    IF interval <= count + 1
        THEN [scale |-> MulTwo(scale), count |-> 0]
        ELSE [scale |-> scale, count |-> count + 1]

\* (variant: the compute-precision weights are not refreshed)
CopyWeightsStale(wm, wc) == wc

\* copy of the master weights into the compute-precision weights
CopyWeights(wm, wc) ==
    [p \in Params |-> CastToCompute(wm[p])]

\* (variant: the scaled loss is returned)
ReturnTupleScaled(loss, scaled_loss, v_loss, pi_loss) ==
    <<scaled_loss, v_loss, pi_loss>>

\* the returned tuple
ReturnTuple(loss, scaled_loss, v_loss, pi_loss) ==
    <<loss, v_loss, pi_loss>>


\* (variant: next() is called on the iterator itself)
IterAfterNext(pos) == pos + 1

\* position of an iterator after clone().next() was called on its clone
IterAfterClonedNext(pos) == pos

\* (variant: no early return)
IsZeroBatchNever(batch_size) == FALSE

\* the early return of a call with batch_size == 0
IsZeroBatch(batch_size) == batch_size = 0

\* (variant: the flag is not consulted)
ColdStartAlways(created) == TRUE

\* the cold-start pass runs while master_grad_created is false
ColdStartNeeded(created) == ~created

\* ---- inputs ----
\* what backward() yields for one parameter, per unit of loss: no gradient, a finite
\* gradient, or a non-finite one (overflow of the compute precision, NaN input)
BackVals == {Undef, NaN, Inf} \cup {Fin(m, 0) : m \in GradVals}
InitWeight(p) == Fin((p - 1) % WeightMod, 0)

\* ---- NNOptimizer::new ----
Init ==
    /\ phase = "init"
    /\ update_interval = 1
    /\ gradient_scale = InitScaleExp
    /\ step_count = 0
    /\ master_grad_created = FALSE
    /\ vs_master = [p \in Params |-> InitWeight(p)]
    /\ vs_cloned = [p \in Params |-> CastToCompute(InitWeight(p))]
    /\ grad_master = [p \in Params |-> Undef]
    /\ grad_cloned = [p \in Params |-> Undef]
    /\ calls = "none"
    /\ outcome = "none"
    /\ arg_zero_batch = FALSE
    /\ main_loss = NoLoss
    /\ ret = NoRet
    /\ passes = NoPasses
    /\ stages = <<>>
    /\ cold_total = 0
    /\ run_start = InitScaleExp
    /\ run_len = 0
    /\ ever_committed = FALSE
    /\ back_grad = NoGrads
    /\ upcast_grad = NoGrads
    /\ updates_total = 0
    /\ commits_total = 0
    /\ calls_left = MaxCalls

\* optimizer.build(..)? either fails, and new returns the error, or the instance is made
New(interval, build_ok) ==
    /\ phase = "init"
    /\ IF build_ok
        THEN /\ phase' = "ready"
             /\ update_interval' = interval
             /\ gradient_scale' = InitScaleExp
             /\ step_count' = 0
             /\ master_grad_created' = FALSE
        ELSE /\ phase' = "failed"
             /\ UNCHANGED <<update_interval, gradient_scale, step_count, master_grad_created>>
    /\ UNCHANGED <<vs_master, vs_cloned, grad_master, grad_cloned>>
    /\ UNCHANGED obs

NextCalls == IF calls = "none" THEN "first" ELSE "later"

\* ---- NNOptimizer::step ----
\* batch_size == 0: return (0, 0, 0)
StepZero(batch_size) ==
    /\ UNCHANGED <<phase, prog>>
    /\ calls' = NextCalls
    /\ outcome' = "zero"
    /\ arg_zero_batch' = (batch_size = 0)
    /\ main_loss' = NoLoss
    /\ ret' = <<Zero, Zero, Zero>>
    /\ passes' = NoPasses
    /\ stages' = <<>>
    /\ back_grad' = NoGrads
    /\ upcast_grad' = NoGrads
    /\ UNCHANGED <<cold_total, run_start, run_len, ever_committed, updates_total,
                   commits_total>>

\* unwrap() of None in the cold-start block: the call panics before any effect
StepUnwrapPanic(batch_size) ==
    /\ phase' = "panicked"
    /\ UNCHANGED prog
    /\ calls' = NextCalls
    /\ outcome' = "panic"
    /\ arg_zero_batch' = (batch_size = 0)
    /\ main_loss' = NoLoss
    /\ ret' = NoRet
    /\ passes' = NoPasses
    /\ stages' = <<>>
    /\ back_grad' = NoGrads
    /\ upcast_grad' = NoGrads
    /\ UNCHANGED <<cold_total, run_start, run_len, ever_committed, updates_total,
                   commits_total>>

\* the rest of step: cg is the gradient of the cold-start example, v and pi the losses
\* of the main forward pass, bg what backward() yields for each parameter
StepMain(batch_size, cg, v, pi, bg) ==
    \* each intermediate value is bound once, in the order the code computes it
    \E cold \in {ColdStartNeeded(master_grad_created)} :
    \E gm1 \in {IF cold THEN RunBackwardOnMaster(grad_master, cg) ELSE grad_master} :
    \E gc2 \in {Backward(ZeroGrad(grad_cloned), bg, gradient_scale)} :
    \E scan \in {ScanFrom(1, gc2, [scale |-> gradient_scale, count |-> step_count,
                                   skip |-> FALSE])} :
    \E update \in {UpdateGuard(scan.skip)} :
    \E copied \in {CopyGradFrom(1, gc2, gm1, Recip(gradient_scale))} :
    \E gm3 \in {ClipGradNorm(copied.gm, gradient_clip_norm)} :
    \E wm1 \in {OptimizerStep(vs_master, gm3)} :
    \E succ \in {SuccessUpdate(scan.scale, scan.count, update_interval)} :
    \E loss \in {Fin(v + pi, 0)} :
    LET iter_pos == IF cold THEN IterAfterClonedNext(1) ELSE 1
        v_loss == Fin(v, 0)
        pi_loss == Fin(pi, 0)
        scaled_loss == MulPow2(loss, gradient_scale)
        wc1 == CopyWeights(wm1, vs_cloned)
        pre == (IF cold THEN <<"cold_start">> ELSE <<>>)
                 \o <<"forward", "zero_grad", "backward", "scan">>
                 \o (IF scan.skip THEN <<"on_overflow">> ELSE <<>>)
    IN
    /\ master_grad_created' = TRUE
    /\ grad_cloned' = gc2
    /\ UNCHANGED update_interval
    /\ calls' = NextCalls
    /\ arg_zero_batch' = (batch_size = 0)
    /\ main_loss' = <<v_loss, pi_loss>>
    /\ passes' = [fwd |-> IF cold THEN 2 ELSE 1, bwd |-> IF cold THEN 2 ELSE 1,
                  cold_examples |-> IF cold THEN 1 ELSE 0, main_first |-> iter_pos]
    /\ cold_total' = IF cold THEN Min(cold_total + 1, 2) ELSE cold_total
    /\ back_grad' = bg
    /\ IF ~update
        THEN \* inf or nan detected: lower scale, no weight update
             /\ phase' = phase
             /\ gradient_scale' = scan.scale
             /\ step_count' = scan.count
             /\ grad_master' = gm1
             /\ UNCHANGED <<vs_master, vs_cloned>>
             /\ outcome' = "skipped"
             /\ ret' = ReturnTuple(loss, scaled_loss, v_loss, pi_loss)
             /\ stages' = pre
             /\ run_start' = scan.scale
             /\ run_len' = 0
             /\ upcast_grad' = NoGrads
             /\ UNCHANGED <<ever_committed, updates_total, commits_total>>
        ELSE IF ~copied.ok
        THEN \* a gradient tensor was undefined in the copy loop: the call panics
             /\ phase' = "panicked"
             /\ grad_master' = copied.gm
             /\ gradient_scale' = scan.scale
             /\ step_count' = scan.count
             /\ UNCHANGED <<vs_master, vs_cloned>>
             /\ outcome' = "panic"
             /\ ret' = NoRet
             /\ stages' = pre \o <<"upcast">>
             /\ upcast_grad' = copied.gm
             /\ UNCHANGED <<run_start, run_len, ever_committed, updates_total,
                            commits_total>>
        ELSE \* the update block; a step is committed when the scan found no overflow
             /\ phase' = phase
             /\ grad_master' = gm3
             /\ vs_master' = wm1
             /\ gradient_scale' = succ.scale
             /\ step_count' = succ.count
             /\ vs_cloned' = wc1
             /\ outcome' = IF scan.skip THEN "skipped" ELSE "committed"
             /\ ret' = ReturnTuple(loss, scaled_loss, v_loss, pi_loss)
             /\ stages' = pre \o <<"upcast", "clip", "optimizer_step", "on_success", "downcast">>
             /\ run_start' = IF step_count = 0 THEN gradient_scale ELSE run_start
             /\ run_len' = IF step_count = 0 THEN 1 ELSE run_len + 1
             /\ ever_committed' = (ever_committed \/ ~scan.skip)
             /\ upcast_grad' = copied.gm
             /\ updates_total' = CountUp(updates_total)
             /\ commits_total' = IF scan.skip THEN commits_total ELSE CountUp(commits_total)

\* one call of step; len is the number of examples each of the three sequences holds
\* (what the main pass does with fewer examples than batch_size is the network's affair)
Step(batch_size, len, cg, v, pi, bg) ==
    /\ phase = "ready"
    /\ IF IsZeroBatch(batch_size) THEN StepZero(batch_size)
       ELSE IF ColdStartNeeded(master_grad_created) /\ ~FirstExampleIsSome(len)
            THEN StepUnwrapPanic(batch_size)
       ELSE StepMain(batch_size, cg, v, pi, bg)

\* ---- specifications ----
\* Spec: every kind of input, at most MaxCalls step calls on the instance
Construct ==
    /\ \E interval \in Intervals, build_ok \in BOOLEAN : New(interval, build_ok)
    /\ UNCHANGED calls_left

\* the inputs a call reads: a zero-batch call and a call that panics on its empty
\* sequences read none of the losses and gradients; the cold-start example yields the
\* gradient 1
Call ==
    /\ calls_left > 0
    /\ calls_left' = calls_left - 1
    /\ \E batch_size \in BatchSizes : \E len \in {0, batch_size} :
        IF batch_size = 0 \/ (~master_grad_created /\ len = 0)
            THEN Step(batch_size, len, 1, 1, 1, [p \in Params |-> Undef])
            ELSE \E cg \in {1} :
                 \E v \in LossVals, pi \in PolicyLossVals, bg \in [Params -> BackVals] :
                    Step(batch_size, len, cg, v, pi, bg)

Next == Construct \/ Call

Spec == Init /\ [][Next]_vars

\* SpecRange: any number of step calls, over the whole f32 range of the scale; a batch
\* is empty or full, the losses are fixed, and the backward pass yields the same kind of
\* gradient (finite, infinite or NaN) for every parameter
RangeBack == {[p \in Params |-> x] : x \in {Fin(1, 0), Inf, NaN}}

CallRange ==
    /\ UNCHANGED calls_left
    /\ \E batch_size \in BatchSizes :
        IF batch_size = 0
            THEN Step(batch_size, 0, 1, 1, 1, [p \in Params |-> Undef])
            ELSE \E bg \in RangeBack : Step(batch_size, batch_size, 1, 1, MaxLoss + 1, bg)

NextRange == Construct \/ CallRange

SpecRange == Init /\ [][NextRange]_vars


\* ---- properties ----
\* the scan ran in the last call
ScanRan == \E i \in DOMAIN stages : stages[i] = "scan"
\* the underlying optimizer's update ran in the last call
UpdateRan == \E i \in DOMAIN stages : stages[i] = "optimizer_step"
\* some defined compute gradient is NaN or infinite
HasOverflow(gc) == \E p \in Params : IsInf(gc[p]) \/ IsNan(gc[p])
LossSum(a, b) == Fin(a.m + b.m, 0)

\* C1: a step call with batch_size > 0 whose overflow scan finds a NaN or infinite
\* compute gradient returns with step_count = 0, the scale halved (one f32
\* multiplication by 0.5) and every master weight as it was before the call.
C1_OverflowStep ==
    [][(ScanRan' /\ HasOverflow(grad_cloned'))
        => /\ step_count' = 0
           /\ gradient_scale' = MulHalf(gradient_scale)
           /\ vs_master' = vs_master]_vars

\* an overflow step that followed a committed one: the counter went from 1 back to 0
C1_Witness ==
    /\ outcome = "skipped"
    /\ HasOverflow(grad_cloned)
    /\ ever_committed
    /\ update_interval = 2
    /\ step_count = 0
    /\ gradient_scale = InitScaleExp - 1

\* C2: a run of committed steps that starts with step_count = 0 leaves the scale alone
\* and counts the steps while it is shorter than update_interval, and at length
\* update_interval has doubled the scale (one f32 multiplication by 2) with step_count 0.
C2_DoublingSchedule ==
    /\ run_len <= update_interval
    /\ run_len = update_interval
        => gradient_scale = MulTwo(run_start) /\ step_count = 0
    /\ run_len < update_interval
        => gradient_scale = run_start /\ step_count = run_len

\* scenario A after step 2: interval 2, 65536 doubled to 131072, counter 0
C2_Witness ==
    /\ update_interval = 2
    /\ outcome = "committed"
    /\ run_len = 2
    /\ run_start = InitScaleExp
    /\ gradient_scale = InitScaleExp + 1
    /\ step_count = 0

\* C3 (as claimed): the scale is always 65536 * 2^k for an integer k.
C3_PowerOfTwoMultiple ==
    gradient_scale \in F32MinExp..F32MaxExp

\* C3 (amended): the scale is 0, +inf or a power of two of the f32 range, and a step
\* call leaves it alone or multiplies it once by 0.5 or once by 2 in f32 arithmetic.
C3_ScaleFactors ==
    /\ [](gradient_scale \in ScaleVals)
    /\ [][gradient_scale' \in {gradient_scale, MulHalf(gradient_scale),
                               MulTwo(gradient_scale)}]_vars

\* the smallest subnormal was halved: the scale is 0.0
C3_Witness ==
    /\ outcome = "skipped"
    /\ gradient_scale = ScaleZero


\* C4: a step call with batch_size == 0 returns (0, 0, 0), runs no forward pass, no
\* backward pass and no optimizer update, and leaves the scale, the counter, the
\* cold-start flag, both weight sets and both gradient sets as they were.
C4_ZeroBatchNoop ==
    [][arg_zero_batch'
        => /\ ret' = <<Zero, Zero, Zero>>
           /\ passes' = NoPasses
           /\ stages' = <<>>
           /\ UNCHANGED prog
           /\ phase' = phase]_vars

\* a zero-batch call as the very first call on a fresh instance
C4_Witness ==
    /\ calls = "first"
    /\ arg_zero_batch
    /\ outcome = "zero"
    /\ ~master_grad_created
    /\ ret = <<Zero, Zero, Zero>>

\* C5: once a step has committed, every compute-precision weight is the master weight
\* cast to compute precision, also after later skipped and zero-batch steps.
C5_DowncastInvariant ==
    ever_committed
        => \A p \in Params : vs_cloned[p] = CastToCompute(vs_master[p])

\* a skipped step after a committed one that moved the master weights
C5_Witness ==
    /\ ever_committed
    /\ outcome = "skipped"
    /\ vs_master # [p \in Params |-> InitWeight(p)]
    /\ \E p \in Params : vs_cloned[p] # vs_master[p]

\* C6: a step call with batch_size > 0 that returns, returns (v + pi, v, pi) of the
\* main forward pass, unscaled, whether it committed or skipped.
C6_ReturnedLosses ==
    (calls # "none" /\ ~arg_zero_batch /\ outcome # "panic")
        => /\ outcome \in {"skipped", "committed"}
           /\ ret = <<LossSum(main_loss[1], main_loss[2]), main_loss[1], main_loss[2]>>

\* a skipped step at a scale other than 1 returns the losses 1 and 2 and their sum 3
C6_Witness ==
    /\ outcome = "skipped"
    /\ gradient_scale # 0
    /\ ret = <<Fin(3, 0), Fin(1, 0), Fin(2, 0)>>

C8_FirstCallColdStart ==
    (calls = "first" /\ outcome # "panic")
        => /\ passes.cold_examples = 1
           /\ passes.fwd = 2
           /\ passes.bwd = 2

\* C8 (amended): a call runs the cold-start pass exactly when it has batch_size > 0, the
\* flag is still false and the sequences are not empty; it is then one extra forward
\* and backward pass on one example, the main pass starts at the first element, and
\* the returned losses are those of the main pass. Every other call runs none.
C8_ColdStartPass ==
    [][phase = "ready"
        => IF ~master_grad_created /\ ~arg_zero_batch' /\ stages' # <<>>
            THEN /\ passes' = [fwd |-> 2, bwd |-> 2, cold_examples |-> 1, main_first |-> 1]
                 /\ ret' \in {NoRet, <<LossSum(main_loss'[1], main_loss'[2]),
                                       main_loss'[1], main_loss'[2]>>}
            ELSE /\ passes'.cold_examples = 0
                 /\ passes'.fwd <= 1
                 /\ passes'.bwd <= 1]_vars

\* the cold-start pass ran in a second call, after a zero-batch first call
C8_Witness ==
    /\ calls = "later"
    /\ passes.cold_examples = 1
    /\ passes.main_first = 1
    /\ outcome = "committed"
    /\ calls_left = MaxCalls - 2

\* C9: the cold-start pass runs at most once; master_grad_created is false at
\* construction, true once the pass has run, and never goes back to false.
C9_ColdStartOnce ==
    /\ [](/\ cold_total <= 1
          /\ master_grad_created <=> (cold_total = 1)
          /\ calls = "none" => ~master_grad_created)
    /\ [][master_grad_created => master_grad_created']_vars

\* a later call that found the flag set and ran no cold-start pass
C9_Witness ==
    /\ calls = "later"
    /\ master_grad_created
    /\ cold_total = 1
    /\ passes.cold_examples = 0
    /\ passes.fwd = 1
    /\ outcome = "skipped"

\* C10: a failed construction leaves no instance, and every step call on a constructed
\* instance returns a loss tuple.
C10_StepsAlwaysReturn ==
    /\ phase = "failed" => calls = "none"
    /\ calls # "none" => Len(ret) = 3 /\ phase = "ready"

\* C11: at construction and on return from every step call step_count is below
\* update_interval (a positive interval); the counter reaches the interval only inside
\* a committed step, between the increment and the doubling test.
C11_CounterBelowInterval ==
    /\ update_interval > 0
    /\ step_count < update_interval

\* a committed step that left the counter one short of the interval
C11_Witness ==
    /\ outcome = "committed"
    /\ update_interval = 2
    /\ step_count = 1
    /\ gradient_scale = run_start

\* the stages the ordering is stated for, in the stated order
OrderedStages ==
    <<"zero_grad", "backward", "scan", "upcast", "clip", "optimizer_step",
      "on_success", "downcast">>
UpdateStages == {"upcast", "clip", "optimizer_step", "on_success", "downcast"}
IsOrderedStage(x) == \E i \in DOMAIN OrderedStages : OrderedStages[i] = x
IsPrefix(a, b) == Len(a) <= Len(b) /\ \A i \in DOMAIN a : a[i] = b[i]

\* C12: the stages of one call occur in the order zero_grad, backward, scan, upcast,
\* clip, optimizer_step, on_success, downcast, each at most once and none left out
\* before a later one; a call whose scan detects an overflow runs none of the last five.
C12_StageOrder ==
    /\ IsPrefix(SelectSeq(stages, IsOrderedStage), OrderedStages)
    /\ outcome = "committed" => SelectSeq(stages, IsOrderedStage) = OrderedStages
    /\ (ScanRan /\ HasOverflow(grad_cloned))
        => \A i \in DOMAIN stages : stages[i] \notin UpdateStages

\* an overflow call on an instance whose cold-start pass ran in an earlier call
C12_Witness ==
    /\ calls = "later"
    /\ HasOverflow(grad_cloned)
    /\ passes.cold_examples = 0
    /\ stages = <<"forward", "zero_grad", "backward", "scan", "on_overflow">>

UpdatesIn(st) == Cardinality({i \in DOMAIN st : st[i] = "optimizer_step"})

\* C13: a step call invokes the underlying optimizer's update once when it commits and
\* not at all otherwise, the master weights change in committed calls only, and the
\* number of updates so far equals the number of committed steps so far.
C13_UpdateOncePerCommit ==
    /\ [](UpdatesIn(stages) = IF outcome = "committed" THEN 1 ELSE 0)
    /\ [](updates_total = commits_total)
    /\ [][vs_master' # vs_master => outcome' = "committed"]_vars

\* two calls, one committed and one skipped: one update
C13_Witness ==
    /\ calls = "later"
    /\ calls_left = MaxCalls - 2
    /\ outcome = "skipped"
    /\ commits_total = 1
    /\ updates_total = 1
    /\ vs_master # [p \in Params |-> InitWeight(p)]

\* C14 (as claimed): a step call in which the scan detects an overflow returns with
\* every master gradient equal to its value before the call, the call that runs the
\* cold-start pass included.
C14_OverflowKeepsMasterGrad ==
    [][(ScanRan' /\ HasOverflow(grad_cloned')) => grad_master' = grad_master]_vars

\* C14 (amended): a step call in which the scan detects an overflow returns with every
\* master gradient equal to its value before the call when master_grad_created was
\* true on entry; in the call that runs the cold-start pass the master gradients were
\* undefined on entry and are defined on return.
C14_OverflowAfterColdStart ==
    [][(ScanRan' /\ HasOverflow(grad_cloned'))
        => IF master_grad_created
            THEN grad_master' = grad_master
            ELSE \A p \in Params : ~Defined(grad_master[p]) /\ Defined(grad_master'[p])]_vars

\* an overflow call after a committed one: the master gradients of the committed step
\* are still there
C14_Witness ==
    /\ calls = "later"
    /\ outcome = "skipped"
    /\ HasOverflow(grad_cloned)
    /\ commits_total = 1
    /\ \A p \in Params : grad_master[p] = Fin(1, 0)

\* C15: in a call whose scan finds no overflow, a parameter pair whose compute gradient
\* is undefined is passed over by the upcast (its master gradient stays as it was), the
\* other pairs are upcast, and the step commits.
C15_UndefinedGradSkipped ==
    [][(ScanRan' /\ ~HasOverflow(grad_cloned'))
        => /\ outcome' = "committed"
           /\ \A p \in Params :
                IF Defined(grad_cloned'[p])
                    THEN upcast_grad'[p] = MulPow2(grad_cloned'[p], Recip(gradient_scale))
                    ELSE master_grad_created => upcast_grad'[p] = grad_master[p]]_vars

\* C16: in a committed step every master gradient right after the copy loop, before
\* clipping, is this step's compute gradient times 1 / scale, with the scale the call
\* started with (the one that multiplied the loss); nothing of the cold-start gradient
\* or of an earlier step's gradient is left in it (a parameter that got no gradient in
\* this step has the cleared buffer of an earlier step, which is zero).
C16_UpcastOverwrites ==
    [][outcome' = "committed"
        => \A p \in Params :
            /\ Defined(grad_cloned'[p])
            /\ grad_cloned'[p] = IF Defined(back_grad'[p])
                                    THEN MulPow2(back_grad'[p], gradient_scale)
                                    ELSE Zero
            /\ upcast_grad'[p] = MulPow2(grad_cloned'[p], Recip(gradient_scale))]_vars

\* a second committed step, after a doubling of the scale: the master gradient is the
\* gradient of this step alone
C16_Witness ==
    /\ calls = "later"
    /\ outcome = "committed"
    /\ commits_total = 2
    /\ update_interval = 1
    /\ gradient_scale = InitScaleExp + 2
    /\ \A p \in Params : grad_cloned[p] = Fin(1, InitScaleExp + 1)
    /\ \A p \in Params : upcast_grad[p] = Fin(1, 0)

\* C17: a step call that reaches the scan is skipped exactly when some defined compute
\* gradient is NaN or infinite (an undefined gradient never makes it skip), and a
\* skipped call has multiplied the scale by 0.5 once, whatever the number of
\* non-finite gradients; calls that do not reach the scan are never skipped.
C17_SkipIffOverflow ==
    [][/\ outcome' = "skipped"
            <=> (ScanRan' /\ \E p \in Params :
                    Defined(grad_cloned'[p]) /\ (IsInf(grad_cloned'[p]) \/ IsNan(grad_cloned'[p])))
       /\ outcome' = "skipped" => gradient_scale' = MulHalf(gradient_scale)]_vars

\* the first call, with an undefined gradient before the offending one and every
\* defined gradient non-finite: one halving
C17_Witness ==
    /\ calls = "first"
    /\ outcome = "skipped"
    /\ ~Defined(grad_cloned[1])
    /\ \A p \in Params : p > 1 => IsInf(grad_cloned[p]) \/ IsNan(grad_cloned[p])
    /\ gradient_scale = InitScaleExp - 1

\* the backward pass of the last call yielded no NaN and no infinity
BackwardFinite == \A p \in Params : back_grad[p].k \in {"undef", "fin"}

\* C18: the compute gradients the scan examines are those of the current step: each is
\* what this step's backward pass yielded times the scale, or the cleared (zero or
\* still undefined) buffer where it yielded nothing; so a step whose backward pass
\* yields no NaN and no infinity is not skipped, whatever an earlier step left behind.
C18_GradsOfThisStep ==
    [][ScanRan'
        => /\ \A p \in Params :
                grad_cloned'[p] =
                    IF Defined(back_grad'[p]) THEN MulPow2(back_grad'[p], gradient_scale)
                    ELSE IF Defined(grad_cloned[p]) THEN Zero
                    ELSE Undef
           /\ BackwardFinite' => outcome' # "skipped"]_vars

\* a committed step right after a skipped one, whose NaN or infinite gradients were
\* still in the buffers when it began
C18_Witness ==
    /\ calls = "later"
    /\ calls_left = MaxCalls - 2
    /\ outcome = "committed"
    /\ commits_total = 1
    /\ update_interval = 2
    /\ gradient_scale = InitScaleExp - 1
    /\ BackwardFinite

\* C19 (as claimed): the scale is never 0 and never infinite.
C19_ScalePositiveFinite ==
    gradient_scale # ScaleZero /\ gradient_scale # ScaleInf

\* C19 (amended): the scale is positive and finite until a skipped step halves the
\* smallest subnormal 2^-149, which gives 0.0, or a committed step doubles 2^127, which
\* gives +inf; no other call produces 0.0 or +inf, and both values are kept for good.
C19_ScaleLeavesRangeAtEnds ==
    /\ [][gradient_scale' = ScaleZero
            => \/ gradient_scale = ScaleZero
               \/ gradient_scale = F32MinExp /\ outcome' = "skipped"]_vars
    /\ [][gradient_scale' = ScaleInf
            => \/ gradient_scale = ScaleInf
               \/ gradient_scale = F32MaxExp /\ outcome' = "committed"]_vars
    /\ [][(gradient_scale = ScaleZero \/ gradient_scale = ScaleInf)
            => gradient_scale' = gradient_scale]_vars

\* the committed step that doubled 2^127: the scale is +inf
C19_Witness ==
    /\ outcome = "committed"
    /\ gradient_scale = ScaleInf
    /\ step_count = 0
    /\ run_start = F32MaxExp

\* C20: a skipped step multiplies the scale by 0.5, a committed step leaves it alone or
\* multiplies it by 2, any other call leaves it alone; a committed step doubles exactly
\* when it is the update_interval-th committed step in a row since the scale last
\* changed (run_len restarts at every overflow and every doubling).
C20_ScaleDirection ==
    [][/\ outcome' = "skipped" => gradient_scale' = MulHalf(gradient_scale) /\ run_len' = 0
       /\ outcome' \in {"zero", "panic"}
            => gradient_scale' = gradient_scale /\ run_len' = run_len
       /\ outcome' = "committed"
            => IF run_len' = update_interval
                THEN gradient_scale' = MulTwo(gradient_scale) /\ step_count' = 0
                ELSE /\ gradient_scale' = gradient_scale
                     /\ run_len' < update_interval
                     /\ step_count' = run_len']_vars

\* interval 2: committed, skipped, committed; the second commit does not double
C20_Witness ==
    /\ update_interval = 2
    /\ outcome = "committed"
    /\ commits_total = 2
    /\ run_len = 1
    /\ step_count = 1
    /\ gradient_scale = InitScaleExp - 1

====
